---- MODULE Spec2Model ----
(***************************************************************************)
(* FastLexRankSummarizer (src/src/FastLexRank/FastLexRank.py).             *)
(*                                                                         *)
(* One summarizer object: its three fields (corpus, model_path,            *)
(* threshold), the tie resolution of the numpy build's default argsort,    *)
(* and what the last public call produced.  Every public method is one     *)
(* synchronous, atomic step.                                               *)
(*                                                                         *)
(* Numbers.  Embedding coordinates are integers, so the similarity matrix  *)
(* and the column sums z are exact integers.  A score is z_j / sqrt(Q)     *)
(* summed against a matrix row; it is kept exactly as the pair             *)
(* [num, den2] standing for num / sqrt(den2).  den2 = 0 is the result of   *)
(* the division 0 / sqrt(0), i.e. NaN.  Python indices are 0-based and     *)
(* are kept 0-based inside top_sentences; sequences themselves are         *)
(* 1-based, so corpus[i + 1] is Python's corpus[i].                        *)
(***************************************************************************)
EXTENDS Integers, Sequences, FiniteSets, TLC

\* ---------------------------------------------------------------- bounds
\* Longest corpus explored.
MaxN == 3
\* Number of distinct sentence texts the corpus is drawn from.
NumTexts == 3
\* Largest threshold explored (thresholds range over -1..MaxThreshold).
MaxThreshold == 2

\* ------------------------------------------------------------- utilities
Min(a, b) == IF a < b THEN a ELSE b
Max(a, b) == IF a > b THEN a ELSE b

\* The same sequence, as a tuple of evaluated elements (a function
\* expression is otherwise evaluated again at each application).
Tuple(f) == f \o <<>>

RECURSIVE SumTo(_, _)
\* f[1] + ... + f[k]
SumTo(f, k) == IF k = 0 THEN 0 ELSE f[k] + SumTo(f, k - 1)

\* The sum of the elements of a sequence of numbers.
Sum(f) == CHOOSE total \in {SumTo(t, Len(t)) : t \in {Tuple(f)}} : TRUE

\* Optional values: Python None is the empty tuple, a present value v is <<v>>.
None == <<>>
Some(v) == <<v>>

\* ------------------------------------------------- the embedding provider
\* SentenceTransformer(model_path).encode: an external, deterministic map
\* from a sentence text to a fixed-length vector.  Texts are 1..NumTexts.
Vocabulary ==
    << <<1, 0>>, <<0, 1>>, <<-2, 0>>, <<1, 1>>, <<0, -1>>, <<-1, -1>> >>

Encode(text) == Vocabulary[text]

\* _get_sentence_embeddings: one row per sentence, in corpus order.
get_sentence_embeddings(c) == Tuple([i \in 1..Len(c) |-> Encode(c[i])])

\* ------------------------------------------------------ similarity matrix
\* np.inner on two rows.
Inner(u, v) == Sum([k \in 1..Len(u) |-> u[k] * v[k]])

\* _get_similarity_matrix: np.inner(embeddings, embeddings).
get_similarity_matrix(emb) ==
    Tuple([i \in 1..Len(emb) |->
            Tuple([j \in 1..Len(emb) |-> Inner(emb[i], emb[j])])])

\* Python truth value of self.threshold: None and 0 are both false.
Truthy(t) == t # None /\ t[1] # 0

\* if self.threshold: similarity_matrix[similarity_matrix < self.threshold] = 0
apply_threshold(S, t) ==
    IF Truthy(t)
    THEN Tuple([i \in 1..Len(S) |->
            Tuple([j \in 1..Len(S) |-> IF S[i][j] < t[1] THEN 0 ELSE S[i][j]])])
    ELSE S

\* ------------------------------------------------------------ the scores
\* similarity_matrix.T
Transpose(S) ==
    Tuple([i \in 1..Len(S) |-> Tuple([j \in 1..Len(S) |-> S[j][i]])])

\* similarity_matrix.sum(axis=0): z[j] = sum over i of S[i][j].
ColumnSums(S) ==
    Tuple([j \in 1..Len(S) |-> Sum([i \in 1..Len(S) |-> S[i][j]])])

\* (z**2).sum(axis=0)
SumSquares(z) == Sum([j \in 1..Len(z) |-> z[j] * z[j]])

NaN == [num |-> 0, den2 |-> 0]
IsNaN(x) == x.den2 = 0

\* Normalize with the sum of z in place of its Euclidean norm.
NormalizeBySum(z) ==
    LET q == Sum(z) * Sum(z)
    IN  Tuple([j \in 1..Len(z) |->
                IF q = 0 THEN NaN ELSE [num |-> z[j], den2 |-> q]])

\* z / np.sqrt((z**2).sum(axis=0)).  The divisor is 0 only when every z[j]
\* is 0, and 0 / 0 is NaN; an empty z stays empty.
Normalize(z) ==
    LET q == SumSquares(z)
    IN  Tuple([j \in 1..Len(z) |->
                IF q = 0 THEN NaN ELSE [num |-> z[j], den2 |-> q]])

\* np.dot(z.T, F): out[i] = sum over j of z[j] * F[j][i].  NaN is absorbing.
Dot(zn, F) ==
    Tuple([i \in 1..Len(zn) |->
        IF \E j \in 1..Len(zn) : IsNaN(zn[j])
        THEN NaN
        ELSE [num  |-> Sum([j \in 1..Len(zn) |-> zn[j].num * F[j][i]]),
              den2 |-> zn[1].den2]])

\* The locals of get_lexrank_scores are bound as members of one-element
\* sets, so that each is computed once, as in the code.

\* Lines 49-52: embeddings, similarity_matrix and the threshold step.
scoring_matrix(c, t) ==
    CHOOSE M \in
        {apply_threshold(similarity, t) :
            similarity \in {get_similarity_matrix(embeddings) :
                embeddings \in {get_sentence_embeddings(c)}}} : TRUE

\* Lines 54-61: F, z, the normalised z and approx_scores.
lexrank_of(S) ==
    CHOOSE approx_scores \in
        {Dot(zn, F) :
            zn \in {Normalize(z) : z \in {ColumnSums(S)}},
            F \in {Transpose(S)}} : TRUE

\* ------------------------------------------------------- top-N selection
\* Sort order of two float scores of one vector: NaN sorts after every
\* number; numbers share den2 > 0 and compare by numerator.
Less(a, b) ==
    IF IsNaN(a) THEN FALSE
    ELSE IF IsNaN(b) THEN TRUE
    ELSE a.num < b.num

SameKey(a, b) == ~Less(a, b) /\ ~Less(b, a)

\* np.argsort(scores), default kind (quicksort, not stable): ascending by
\* score; equal scores come out in an order the build decides.  ties[i + 1]
\* is the rank the build gives index i among equal scores.
Argsort(scores, ties) ==
    LET N == Len(scores)
        Before(j, i) ==
            \/ Less(scores[j + 1], scores[i + 1])
            \/ /\ SameKey(scores[j + 1], scores[i + 1])
               /\ ties[j + 1] < ties[i + 1]
        \* place[i + 1]: how many indices the sort puts before index i
        Places ==
            Tuple([i \in 1..N |->
                Cardinality({j \in 0..(N - 1) : Before(j, i - 1)})])
    IN  CHOOSE order \in
            {Tuple([k \in 1..N |->
                CHOOSE i \in 0..(N - 1) : place[i + 1] = k - 1]) :
                    place \in {Places}} : TRUE

\* Reverse without the reversal: the ascending order is kept.
Unreversed(seq) == seq

\* seq[::-1]
Reverse(seq) == Tuple([k \in 1..Len(seq) |-> seq[Len(seq) + 1 - k]])

\* SliceTo with the stop taken inclusively, seq[:n + 1].
SliceToInclusive(seq, n) ==
    LET stop == IF n + 1 < 0 THEN Max(Len(seq) + n + 1, 0)
                ELSE Min(n + 1, Len(seq))
    IN  SubSeq(seq, 1, stop)

\* seq[:n] with Python's slice rules: a negative n counts from the end,
\* and the stop is clamped into 0..len.
SliceTo(seq, n) ==
    LET stop == IF n < 0 THEN Max(Len(seq) + n, 0) ELSE Min(n, Len(seq))
    IN  SubSeq(seq, 1, stop)

\* _get_top_sentences: np.argsort(lexrank_scores)[::-1][:n]
get_top_sentences(scores, n, ties) ==
    CHOOSE top \in
        {SliceTo(descending, n) :
            descending \in {Reverse(ascending) :
                ascending \in {Argsort(scores, ties)}}} : TRUE

\* [self.corpus[i] for i in top_sentences]
pick_sentences(c, top) == Tuple([k \in 1..Len(top) |-> c[top[k] + 1]])

\* ----------------------------------------------------------------- state
VARIABLES
    corpus,             \* self.corpus: sequence of sentence texts
    model_path,         \* self.model_path
    threshold,          \* self.threshold: None or Some(number)
    sort_ties,          \* the build's resolution of equal keys in argsort
    outcome,            \* of the last public call: "none" before the first,
                        \* then "returned" or the error that was raised
    args,               \* the n of the last summarize that returned, Some(n)
    similarity_matrix,  \* the matrix the last call scored with
    lexrank_scores,     \* the score vector of the last call
    top_sentences,      \* the indices chosen by the last summarize
    summary             \* the sentence list returned by the last summarize

vars == << corpus, model_path, threshold, sort_ties, outcome, args,
           similarity_matrix, lexrank_scores, top_sentences, summary >>

fields == << corpus, model_path, threshold >>

Texts == 1..NumTexts
Corpora == UNION {[1..k -> Texts] : k \in 0..MaxN}
Thresholds == {None} \cup {Some(t) : t \in (0 - 1)..MaxThreshold}
\* Requested counts: negative, zero, within the corpus, beyond the corpus.
Counts == (0 - 1)..(MaxN + 1)

Permutation(k) ==
    {p \in [1..k -> 0..(k - 1)] : \A a, b \in 1..k : a # b => p[a] # p[b]}

\* The tie resolutions a build can have for one score vector.  Argsort reads
\* ties only between indices of equal score, so the permutations that keep
\* every index within its class of equal scores give every order in which
\* equal scores can come out, each once.
TieOrders(scores) ==
    {p \in Permutation(Len(scores)) :
        \A i \in 1..Len(scores) : SameKey(scores[i], scores[p[i] + 1])}

\* __init__ (lines 15-23) stores its three arguments.  The corpus and the
\* threshold never change, so the build sorts one score vector only.
Init ==
    /\ corpus \in Corpora
    /\ model_path = "all-MiniLM-L12-v2"
    /\ threshold \in Thresholds
    /\ \E scores \in {lexrank_of(scoring_matrix(corpus, threshold))} :
          sort_ties \in TieOrders(scores)
    /\ outcome = "none"
    /\ args = None
    /\ similarity_matrix = <<>>
    /\ lexrank_scores = <<>>
    /\ top_sentences = <<>>
    /\ summary = <<>>

\* The embedding provider failed (lines 30-31 raise): the exception leaves
\* the method at once, nothing is computed and nothing is returned.
Raise ==
    /\ outcome' = "UpstreamProviderFailure"
    /\ args' = None
    /\ similarity_matrix' = <<>>
    /\ lexrank_scores' = <<>>
    /\ top_sentences' = <<>>
    /\ summary' = <<>>
    /\ UNCHANGED << fields, sort_ties >>

\* get_lexrank_scores() (lines 43-61).
get_lexrank_scores(provider_ok) ==
    IF ~provider_ok
    THEN Raise
    ELSE \E S \in {scoring_matrix(corpus, threshold)} :
             /\ outcome' = "returned"
             /\ args' = None
             /\ similarity_matrix' = S
             /\ lexrank_scores' = lexrank_of(S)
             /\ top_sentences' = <<>>
             /\ summary' = <<>>
             /\ UNCHANGED << fields, sort_ties >>

\* summarize with a zero-norm check that forgets the empty corpus.
summarize_rejecting_zero_norm(n, provider_ok) ==
    IF ~provider_ok
    THEN Raise
    ELSE \E S \in {scoring_matrix(corpus, threshold)} :
         \E scores \in {lexrank_of(S)} :
         \E top \in {get_top_sentences(scores, n, sort_ties)} :
             IF SumSquares(ColumnSums(S)) = 0
             THEN /\ outcome' = "DegenerateGraph"
                  /\ args' = None
                  /\ similarity_matrix' = S
                  /\ lexrank_scores' = <<>>
                  /\ top_sentences' = <<>>
                  /\ summary' = <<>>
                  /\ UNCHANGED << fields, sort_ties >>
             ELSE /\ outcome' = "returned"
                  /\ args' = Some(n)
                  /\ similarity_matrix' = S
                  /\ lexrank_scores' = scores
                  /\ top_sentences' = top
                  /\ summary' = pick_sentences(corpus, top)
                  /\ UNCHANGED << fields, sort_ties >>

\* summarize that leaves the corpus sorted by rank.
summarize_sorting_corpus(n, provider_ok) ==
    IF ~provider_ok
    THEN Raise
    ELSE \E S \in {scoring_matrix(corpus, threshold)} :
         \E scores \in {lexrank_of(S)} :
         \E top \in {get_top_sentences(scores, n, sort_ties)} :
             /\ outcome' = "returned"
             /\ args' = Some(n)
             /\ similarity_matrix' = S
             /\ lexrank_scores' = scores
             /\ top_sentences' = top
             /\ summary' = pick_sentences(corpus, top)
             /\ corpus' = pick_sentences(corpus,
                              get_top_sentences(scores, Len(corpus), sort_ties))
             /\ UNCHANGED << model_path, threshold, sort_ties >>

\* summarize(n) (lines 73-82).
summarize(n, provider_ok) ==
    IF ~provider_ok
    THEN Raise
    ELSE \E S \in {scoring_matrix(corpus, threshold)} :
         \E scores \in {lexrank_of(S)} :
         \E top \in {get_top_sentences(scores, n, sort_ties)} :
             /\ outcome' = "returned"
             /\ args' = Some(n)
             /\ similarity_matrix' = S
             /\ lexrank_scores' = scores
             /\ top_sentences' = top
             /\ summary' = pick_sentences(corpus, top)
             /\ UNCHANGED << fields, sort_ties >>

\* __call__(n) (lines 84-90): return self.summarize(n).
call(n, provider_ok) == summarize(n, provider_ok)

Next ==
    \/ \E ok \in BOOLEAN : get_lexrank_scores(ok)
    \/ \E n \in Counts, ok \in BOOLEAN : summarize(n, ok)
    \/ \E n \in Counts, ok \in BOOLEAN : call(n, ok)

Spec == Init /\ [][Next]_vars

\* ------------------------------------------------------------ properties
\* Number of sentences.
N == Len(corpus)
Indices == 0..(N - 1)

\* The last call was a summarize (or __call__) that returned; Requested is
\* its n.
Summarized == outcome = "returned" /\ args # None
Requested == args[1]

\* The raw inner product of the embeddings of sentences i and j (0-based).
Raw(i, j) == Inner(Encode(corpus[i + 1]), Encode(corpus[j + 1]))

\* Entry (i, j) of the matrix the last call scored with, and its score for
\* sentence i.
Entry(i, j) == similarity_matrix[i + 1][j + 1]
Score(i) == lexrank_scores[i + 1]

\* z[j], its squared Euclidean norm, and the projection sum_j z[j] * S[i][j],
\* all over the matrix the last call scored with.
ColumnSum(j) == Sum([i \in 1..N |-> Entry(i - 1, j)])
ZNormSquared == Sum([j \in 1..N |-> ColumnSum(j - 1) * ColumnSum(j - 1)])
Projection(i) == Sum([j \in 1..N |-> ColumnSum(j - 1) * Entry(i, j - 1)])

\* Every score of the last call is a number.
ScoresDefined == \A i \in Indices : Score(i).den2 > 0

\* Scores of one vector lie over the same positive sqrt(den2): they are equal,
\* or ordered, as their numerators are.
EqualScores(i, j) ==
    Score(i).den2 > 0 /\ Score(i).den2 = Score(j).den2 /\ Score(i).num = Score(j).num
AtLeast(i, j) ==
    Score(i).den2 > 0 /\ Score(i).den2 = Score(j).den2 /\ Score(i).num >= Score(j).num

Chosen == {top_sentences[k] : k \in 1..Len(top_sentences)}

\* C1: after summarize(n) with n >= 0, of two sentences with exactly equal
\* scores the one with the smaller corpus index comes earlier in the result,
\* and is the one kept when only one of them is returned.
TieBreakSmallerIndexFirst ==
    (Summarized /\ Requested >= 0) =>
        \A i, j \in Indices :
            (i < j /\ EqualScores(i, j)) =>
                \A k \in 1..Len(top_sentences) :
                    top_sentences[k] = j =>
                        \E l \in 1..(k - 1) : top_sentences[l] = i

\* C2: summarize(n) with n >= 0 on N sentences with defined scores returns
\* exactly min(n, N) sentences: none for n = 0, and for n > N every sentence
\* once.
ResultLength ==
    (Summarized /\ Requested >= 0 /\ ScoresDefined) =>
        /\ Len(summary) = Min(Requested, N)
        /\ Len(top_sentences) = Len(summary)
        /\ Requested = 0 => summary = <<>>
        /\ Requested > N => Chosen = Indices

ResultLengthWitness ==
    /\ Summarized /\ ScoresDefined
    /\ N = 2 /\ Requested = N + 1
    /\ Len(summary) = N

\* C3: for 0 < n <= N and a score vector of numbers, the indices
\* _get_top_sentences returns are pairwise distinct members of 0..N-1, run
\* from highest score to lowest, and each has a score at least that of every
\* index not returned.
TopNByScore ==
    (Summarized /\ 0 < Requested /\ Requested <= N /\ ScoresDefined) =>
        /\ \A k \in 1..Len(top_sentences) : top_sentences[k] \in Indices
        /\ \A k, l \in 1..Len(top_sentences) :
               k < l => /\ top_sentences[k] # top_sentences[l]
                        /\ AtLeast(top_sentences[k], top_sentences[l])
        /\ \A a \in Chosen : \A b \in Indices \ Chosen : AtLeast(a, b)

TopNByScoreWitness ==
    /\ Summarized /\ ScoresDefined
    /\ N = 3 /\ Requested = 2
    /\ \E a \in Chosen : \E b \in Indices \ Chosen : ~AtLeast(b, a)
    /\ ~AtLeast(top_sentences[2], top_sentences[1])

\* C4: no summarize(n) or __call__(n) with n < 0 returns a sentence list.
NegativeCountFails == ~(Summarized /\ Requested < 0)

\* C5: with a threshold present (0 and negative values included) every entry
\* of the scoring matrix whose inner product is below the threshold is zero
\* and every other entry is the inner product; without a threshold the matrix
\* is the matrix of inner products.
ThresholdRule ==
    outcome = "returned" =>
        /\ Len(similarity_matrix) = N
        /\ \A i, j \in Indices :
               Entry(i, j) = IF threshold # None /\ Raw(i, j) < threshold[1]
                             THEN 0
                             ELSE Raw(i, j)

\* C6: with N >= 1 and a column-sum vector of zero norm no call returns, and
\* no call returns a score vector with a NaN entry.
DegenerateGraphFails ==
    outcome = "returned" =>
        /\ N >= 1 => ZNormSquared # 0
        /\ \A i \in 1..Len(lexrank_scores) : ~IsNaN(lexrank_scores[i])

\* C7: on an empty corpus every call whose embeddings were delivered returns:
\* an empty score vector, and for summarize(n), n >= 0, an empty summary.
EmptyCorpus ==
    (N = 0 /\ outcome \notin {"none", "UpstreamProviderFailure"}) =>
        /\ outcome = "returned"
        /\ lexrank_scores = <<>>
        /\ (args # None /\ Requested >= 0) => summary = <<>>

EmptyCorpusWitness ==
    /\ N = 0 /\ Summarized /\ Requested > 0
    /\ threshold # None /\ Truthy(threshold)
    /\ lexrank_scores = <<>> /\ summary = <<>>

\* C8: for thresholds t1 < t2 on the same embeddings, every entry of the
\* matrix produced with t2 equals the entry produced with t1 or is zero, and
\* an entry that is zero under t1 is zero under t2.
ThresholdMonotone ==
    \A S \in {get_similarity_matrix(get_sentence_embeddings(corpus))} :
    \A t1, t2 \in (0 - 1)..MaxThreshold :
        t1 < t2 =>
            \A A \in {apply_threshold(S, Some(t1))} :
            \A B \in {apply_threshold(S, Some(t2))} :
            \A i, j \in 1..N :
                /\ B[i][j] = A[i][j] \/ B[i][j] = 0
                /\ A[i][j] = 0 => B[i][j] = 0

Stateless ==
    [][/\ corpus' = corpus
       /\ model_path' = model_path
       /\ threshold' = threshold
       /\ (Summarized /\ Summarized' /\ args' = args) =>
              (summary' = summary /\ top_sentences' = top_sentences)]_vars

StatelessWitness ==
    /\ Summarized /\ Requested = 2
    /\ N = 3 /\ corpus[1] = corpus[2] /\ corpus[3] # corpus[1]
    /\ threshold # None
    /\ Len(summary) = 2

====
